---- MODULE Spec2Model ----
(***************************************************************************)
(* Model of parse.py: generate_csv walks a directory of GPX route files    *)
(* and writes one CSV row per track segment; display_stats reads the CSV   *)
(* back and prints summary statistics; the __main__ block chains the two.  *)
(*                                                                         *)
(* Distances are modelled in whole metres.  CSV cells are strings: the     *)
(* writer formats values to text and the reader parses text back.          *)
(***************************************************************************)
EXTENDS Integers, Sequences, FiniteSets, TLC

(***************************************************************************)
(* Bounds of the model.                                                    *)
(***************************************************************************)
MaxFiles == 2
MaxTracks == 2
MaxSegs == 2
MaxPoints == 3
MaxRuns == 2
MaxNum == 99

(***************************************************************************)
(* Module-level constants of parse.py.                                     *)
(***************************************************************************)
fieldnames ==
  << "Track name", "Segment", "Points", "GeoPy distance", "GeoPy closing distance",
     "GPX 2d distance", "GPX 3d distance", "GPX 3d - GeoPy" >>

writer_restval == "??"

reader_restval == "??"

\* Python values that reach the csv writer: None, a str or a number.
None == [t |-> "none"]

Str(s) == [t |-> "str", v |-> s]

Num(n) == [t |-> "num", v |-> n]

(***************************************************************************)
(* Text conversions.                                                       *)
(***************************************************************************)
Digits == << "0", "1", "2", "3", "4", "5", "6", "7", "8", "9" >>

RECURSIVE NatToStr(_)
NatToStr(n) ==
  IF n < 10 THEN Digits[n + 1] ELSE NatToStr(n \div 10) \o Digits[(n % 10) + 1]

\* str(number), as the csv writer applies it to a numeric cell.
ToStr(n) == IF n < 0 THEN "-" \o NatToStr(-n) ELSE NatToStr(n)

\* The csv writer's rendering of one cell: None becomes the empty string.
CsvText(value) ==
  CASE value.t = "none" -> ""
    [] value.t = "str" -> value.v
    [] value.t = "num" -> ToStr(value.v)

Numerals == { ToStr(n) : n \in (-MaxNum)..MaxNum }

\* float(text): defined exactly on numerals; anything else raises ValueError.
IsFloat(text) == text \in Numerals

ParseFloat(text) == CHOOSE n \in (-MaxNum)..MaxNum : ToStr(n) = text

(***************************************************************************)
(* Geometry: the geodesic function and gpxpy's path lengths.               *)
(***************************************************************************)
Isqrt(n) == CHOOSE r \in 0..n : r * r <= n /\ (r + 1) * (r + 1) > n

Abs(x) == IF x < 0 THEN -x ELSE x

point_gpx_to_geopy(gpx_point) == << gpx_point.latitude, gpx_point.longitude >>

\* geopy.distance.distance(a, b).meters on (latitude, longitude) pairs.
GeodesicMeters(a, b) ==
  Isqrt((a[1] - b[1]) * (a[1] - b[1]) + (a[2] - b[2]) * (a[2] - b[2]))

get_geopy_distance(gpx_point_one, gpx_point_two) ==
  GeodesicMeters(point_gpx_to_geopy(gpx_point_one), point_gpx_to_geopy(gpx_point_two))

\* The for loop of geopy_sequence_distance from position i on; previous_point
\* is <<>> for None and <<p>> for a point.
RECURSIVE SequenceLoop(_, _, _, _)
SequenceLoop(gpx_points, i, previous_point, total_distance) ==
  IF i > Len(gpx_points) THEN total_distance
  ELSE IF previous_point = << >>
       THEN SequenceLoop(gpx_points, i + 1, << gpx_points[i] >>, total_distance)
       ELSE SequenceLoop(gpx_points, i + 1, << gpx_points[i] >>,
                         total_distance + get_geopy_distance(previous_point[1], gpx_points[i]))

\* A loop that never advances previous_point past the first point.
RECURSIVE StaleLoop(_, _, _, _)
StaleLoop(gpx_points, i, previous_point, total_distance) ==
  IF i > Len(gpx_points) THEN total_distance
  ELSE IF previous_point = << >>
       THEN StaleLoop(gpx_points, i + 1, << gpx_points[i] >>, total_distance)
       ELSE StaleLoop(gpx_points, i + 1, previous_point,
                      total_distance + get_geopy_distance(previous_point[1], gpx_points[i]))

geopy_sequence_distance_stale(gpx_points) == StaleLoop(gpx_points, 1, << >>, 0)

geopy_sequence_distance(gpx_points) == SequenceLoop(gpx_points, 1, << >>, 0)

\* gpxpy: distance between two points, with the elevation difference when
\* three_d is set.
GpxDistance(p, q, three_d) ==
  LET d2 == GeodesicMeters(<< p.latitude, p.longitude >>, << q.latitude, q.longitude >>)
      dz == Abs(p.elevation - q.elevation)
  IN  IF three_d THEN Isqrt(d2 * d2 + dz * dz) ELSE d2

RECURSIVE GpxLength(_, _, _)
GpxLength(points, i, three_d) ==
  IF i >= Len(points) THEN 0
  ELSE GpxDistance(points[i], points[i + 1], three_d) + GpxLength(points, i + 1, three_d)

length_2d(segment) == GpxLength(segment.points, 1, FALSE)

length_3d(segment) == GpxLength(segment.points, 1, TRUE)

(***************************************************************************)
(* generate_csv: the row of one segment and the rows of one route file.    *)
(***************************************************************************)
\* A closing distance measured to the second point instead of the last.
closing_distance_second(points) ==
  IF Len(points) > 1 THEN get_geopy_distance(points[1], points[2]) ELSE 0

\* The conditional expression of lines 61-63.
closing_distance(points) ==
  IF Len(points) > 0 THEN get_geopy_distance(points[1], points[Len(points)]) ELSE 0

\* The delta with its operands swapped.
delta_of_swapped(row_data) == row_data["GeoPy distance"].v - row_data["GPX 3d distance"].v

\* The delta of line 67, from the two cells already in row_data.
delta_of(row_data) == row_data["GPX 3d distance"].v - row_data["GeoPy distance"].v

row_data_of(track, segment_number, segment) ==
  LET row_data ==
        [name \in { fieldnames[i] : i \in 1..7 } |->
           CASE name = "Track name" -> track.name
             [] name = "Segment" -> Num(segment_number)
             [] name = "Points" -> Num(Len(segment.points))
             [] name = "GeoPy distance" -> Num(geopy_sequence_distance(segment.points))
             [] name = "GeoPy closing distance" -> Num(closing_distance(segment.points))
             [] name = "GPX 2d distance" -> Num(length_2d(segment))
             [] name = "GPX 3d distance" -> Num(length_3d(segment))]
  IN  [name \in DOMAIN row_data \cup { "GPX 3d - GeoPy" } |->
         IF name = "GPX 3d - GeoPy" THEN Num(delta_of(row_data)) ELSE row_data[name]]

\* DictWriter.writerow: the cells in fieldnames order; restval stands in only
\* for a key that is absent from the dict.
writerow(row_data) ==
  [i \in 1..Len(fieldnames) |->
     IF fieldnames[i] \in DOMAIN row_data THEN CsvText(row_data[fieldnames[i]])
     ELSE writer_restval]

\* for segment_number, segment in enumerate(track.segments, start=1)
RECURSIVE SegmentsLoop(_, _, _)
SegmentsLoop(track, index, segment_number) ==
  IF index > Len(track.segments) THEN << >>
  ELSE << writerow(row_data_of(track, segment_number, track.segments[index])) >>
         \o SegmentsLoop(track, index + 1, segment_number + 1)

\* An enumeration that starts counting at 0.
TrackRowsFromZero(track) == SegmentsLoop(track, 1, 0)

TrackRows(track) == SegmentsLoop(track, 1, 1)

\* for track in gpx.tracks
RECURSIVE TracksLoop(_, _)
TracksLoop(tracks, t) ==
  IF t > Len(tracks) THEN << >> ELSE TrackRows(tracks[t]) \o TracksLoop(tracks, t + 1)

FileRows(gpx) == TracksLoop(gpx.tracks, 1)

(***************************************************************************)
(* display_stats: DictReader, float parsing and the statistics module.     *)
(***************************************************************************)
\* Position of a column in the header row (the last one wins on a repeat).
ColumnOf(header, name) ==
  CHOOSE i \in 1..Len(header) :
    header[i] = name /\ \A j \in (i + 1)..Len(header) : header[j] # name

\* DictReader(restkey="EXT", restval="??"): the first line is the header, blank
\* lines are skipped, a short row is padded with restval.
DictReaderRows(lines, restval) ==
  IF Len(lines) = 0 THEN << >>
  ELSE LET header == lines[1]
           body == SelectSeq(Tail(lines), LAMBDA row : Len(row) > 0)
       IN  [r \in 1..Len(body) |->
              [name \in { header[i] : i \in 1..Len(header) } |->
                 IF ColumnOf(header, name) <= Len(body[r])
                 THEN body[r][ColumnOf(header, name)] ELSE restval]]

\* A reader that was given the field names and so reads the header line as a
\* record.
DictReaderHeaderAsRow(lines) == DictReaderRows(<< fieldnames >> \o lines, reader_restval)

\* A reader that pads a short row with "0".
DictReaderZeroFill(lines) == DictReaderRows(lines, "0")

DictReader(lines) == DictReaderRows(lines, reader_restval)

RECURSIVE SumSeq(_, _)
SumSeq(xs, i) == IF i > Len(xs) THEN 0 ELSE xs[i] + SumSeq(xs, i + 1)

RECURSIVE SumSquares(_, _)
SumSquares(xs, i) == IF i > Len(xs) THEN 0 ELSE xs[i] * xs[i] + SumSquares(xs, i + 1)

SeqMin(xs) == CHOOSE m \in { xs[i] : i \in 1..Len(xs) } : \A i \in 1..Len(xs) : m <= xs[i]

SeqMax(xs) == CHOOSE m \in { xs[i] : i \in 1..Len(xs) } : \A i \in 1..Len(xs) : m >= xs[i]

\* statistics.mean as an exact fraction; raises StatisticsError on no data.
mean(xs) == [num |-> SumSeq(xs, 1), den |-> Len(xs)]

\* statistics.stdev: the square root of the sample variance (n - 1
\* denominator), kept as the exact fraction under the root; raises
\* StatisticsError on fewer than two values.
stdev(xs) ==
  [sqrt_num |-> Len(xs) * SumSquares(xs, 1) - SumSeq(xs, 1) * SumSeq(xs, 1),
   sqrt_den |-> Len(xs) * (Len(xs) - 1)]

\* The body of display_stats (lines 73-81) on the lines of the store: what it
\* prints and the exception it ends with ("none" when it returns).
StatsOutcome(lines) ==
  LET results == DictReader(lines)
      n == Len(results)
      has(name) == \A r \in 1..n : name \in DOMAIN results[r]
      floats(name) == \A r \in 1..n : IsFloat(results[r][name])
      column(name) == [r \in 1..n |-> ParseFloat(results[r][name])]
      route_distances == column("GeoPy distance")
      deltas == column("GPX 3d - GeoPy")
      average == [text |-> "Average trip length", value |-> mean(route_distances)]
      heading == [text |-> "Deltas between methods:"]
      summary == [text |-> "min, mean, max, std. dev.", min |-> SeqMin(deltas),
                  mean |-> mean(deltas), max |-> SeqMax(deltas), stdev |-> stdev(deltas)]
  IN  IF ~has("GeoPy distance") THEN [printed |-> << >>, error |-> "KeyError"]
      ELSE IF ~floats("GeoPy distance") THEN [printed |-> << >>, error |-> "ValueError"]
      ELSE IF ~has("GPX 3d - GeoPy") THEN [printed |-> << >>, error |-> "KeyError"]
      ELSE IF ~floats("GPX 3d - GeoPy") THEN [printed |-> << >>, error |-> "ValueError"]
      ELSE IF n = 0 THEN [printed |-> << >>, error |-> "StatisticsError"]
      ELSE IF n < 2 THEN [printed |-> << average, heading >>, error |-> "StatisticsError"]
      ELSE [printed |-> << average, heading, summary >>, error |-> "none"]

(***************************************************************************)
(* Inputs: route files as gpxpy parses them, and stores found on disk.     *)
(***************************************************************************)
PointCycle ==
  << [latitude |-> 0, longitude |-> 0, elevation |-> 0],
     [latitude |-> 3, longitude |-> 4, elevation |-> 12],
     [latitude |-> 0, longitude |-> 8, elevation |-> 12] >>

\* A segment of n points that walks PointCycle from offset k.
SegmentOf(n, k) ==
  [points |-> [i \in 1..n |-> PointCycle[((i + k) % Len(PointCycle)) + 1]]]

\* Track t of route file k: named or not, with a varying number of segments
\* of varying lengths (0 to MaxPoints points).
TrackOf(k, t) ==
  [name |-> IF (t + k) % 2 = 1 THEN None ELSE Str("Route " \o ToStr(t)),
   segments |-> [s \in 1..((t * k) % (MaxSegs + 1)) |->
                   SegmentOf((s + 2 * t + k) % (MaxPoints + 1), t)]]

GpxFile(k) == [kind |-> "gpx", tracks |-> [t \in 1..k |-> TrackOf(k, t)]]

Malformed == [kind |-> "malformed", tracks |-> << >>]

RouteFiles == { Malformed } \cup { GpxFile(k) : k \in 0..MaxTracks }

Directories == UNION { [1..n -> RouteFiles] : n \in 0..MaxFiles }

GoodRowA == << "Morning", "1", "3", "10", "5", "10", "12", "2" >>

GoodRowB == << "", "2", "2", "7", "7", "7", "6", "-1" >>

GoodRowC == << "Evening", "1", "4", "13", "0", "13", "17", "4" >>

\* Contents of a store that is already on disk when a run starts.
PriorStoreLines ==
  { << >>,
    << fieldnames >>,
    << fieldnames, GoodRowA >>,
    << fieldnames, GoodRowA, GoodRowB >>,
    << fieldnames, GoodRowA, << >>, GoodRowB, GoodRowC >>,
    << fieldnames, GoodRowA, << "Morning", "2", "3" >>, GoodRowB >>,
    << fieldnames, GoodRowB, << "Noon", "1", "2", "abc", "7", "7", "6", "1" >> >>,
    << fieldnames, GoodRowA, << "Noon", "1", "2", "7", "7", "7", "6", "" >>, GoodRowB >>,
    << SubSeq(fieldnames, 1, 4), GoodRowA, GoodRowB >> }

NoStore == [exists |-> FALSE, lines |-> << >>]

(***************************************************************************)
(* State.                                                                  *)
(***************************************************************************)
VARIABLES
  routes_directory,  \* DATA_PATH: whether it is a directory, and its route files
  store,             \* OUTPUT_FILENAME on disk: whether it exists, and its lines
  run,               \* number of the current process run
  entry,             \* how the run was started
  pc,                \* position of the run in the code
  output_existed,    \* Path(OUTPUT_FILENAME).exists() as line 85 saw it
  generated,         \* whether generate_csv has been called in this run
  file_index,        \* position of generate_csv in the directory listing
  open_handles,      \* file objects that are open
  printed,           \* what display_stats has printed in this run
  error,             \* the exception the run is ending with
  store_incomplete   \* history: the store was opened by a generate_csv call that
                     \* has not returned

vars ==
  << routes_directory, store, run, entry, pc, output_existed, generated, file_index,
     open_handles, printed, error, store_incomplete >>

output_file == [name |-> "output_file", index |-> 0]

results_file == [name |-> "results_file", index |-> 0]

route_file(i) == [name |-> "route_file", index |-> i]

Init ==
  /\ routes_directory \in
       { [is_dir |-> FALSE, files |-> << >>] }
         \cup { [is_dir |-> TRUE, files |-> d] : d \in Directories }
  /\ store \in { NoStore } \cup { [exists |-> TRUE, lines |-> l] : l \in PriorStoreLines }
  /\ run = 1
  /\ entry = "none"
  /\ pc = "start"
  /\ output_existed = FALSE
  /\ generated = FALSE
  /\ file_index = 0
  /\ open_handles = { }
  /\ printed = << >>
  /\ error = "none"
  /\ store_incomplete = FALSE

(***************************************************************************)
(* The __main__ block, and direct calls of the two functions.              *)
(***************************************************************************)
\* A test that answers the opposite of what is on disk.
PathMissing(file) == ~file.exists

\* Path(OUTPUT_FILENAME).exists()
PathExists(file) == file.exists

\* Lines 85, 93-95: the store is there; go straight to display_stats.
MainStoreFound ==
  /\ pc = "start"
  /\ PathExists(store)
  /\ entry' = "__main__"
  /\ output_existed' = store.exists
  /\ pc' = "display_call"
  /\ UNCHANGED << store_incomplete, routes_directory, store, run, generated, file_index, open_handles,
                  printed, error >>

\* Lines 85-88: no store and DATA_PATH is no directory.
MainDataPathMissing ==
  /\ pc = "start"
  /\ ~PathExists(store)
  /\ ~routes_directory.is_dir
  /\ entry' = "__main__"
  /\ output_existed' = store.exists
  /\ error' = "FileNotFoundError"
  /\ pc' = "exit_error"
  /\ UNCHANGED << store_incomplete, routes_directory, store, run, generated, file_index, open_handles,
                  printed >>

\* Lines 85-90: no store and DATA_PATH is a directory; call generate_csv.
MainGenerate ==
  /\ pc = "start"
  /\ ~PathExists(store)
  /\ routes_directory.is_dir
  /\ entry' = "__main__"
  /\ output_existed' = store.exists
  /\ pc' = "generate_call"
  /\ UNCHANGED << store_incomplete, routes_directory, store, run, generated, file_index, open_handles,
                  printed, error >>

\* The module imported and generate_csv() called with its defaults.
CallGenerateCsv ==
  /\ pc = "start"
  /\ entry' = "generate_csv"
  /\ output_existed' = store.exists
  /\ pc' = "generate_call"
  /\ UNCHANGED << store_incomplete, routes_directory, store, run, generated, file_index, open_handles,
                  printed, error >>

\* The module imported and display_stats() called with its defaults.
CallDisplayStats ==
  /\ pc = "start"
  /\ entry' = "display_stats"
  /\ output_existed' = store.exists
  /\ pc' = "display_call"
  /\ UNCHANGED << store_incomplete, routes_directory, store, run, generated, file_index, open_handles,
                  printed, error >>

\* Lines 91-95: generate_csv returned to the __main__ block.
MainAfterGenerate ==
  /\ pc = "generate_returned"
  /\ entry = "__main__"
  /\ pc' = "display_call"
  /\ UNCHANGED << store_incomplete, routes_directory, store, run, entry, output_existed, generated,
                  file_index, open_handles, printed, error >>

\* The last call of the run returned: the run ends normally.
RunCompletes ==
  /\ \/ pc = "display_returned"
     \/ pc = "generate_returned" /\ entry = "generate_csv"
  /\ pc' = "exit_ok"
  /\ UNCHANGED << store_incomplete, routes_directory, store, run, entry, output_existed, generated,
                  file_index, open_handles, printed, error >>

\* Nothing catches an exception: it reaches the top level and ends the run.
RunAborts ==
  /\ pc \in { "generate_raised", "display_raised" }
  /\ pc' = "exit_error"
  /\ UNCHANGED << store_incomplete, routes_directory, store, run, entry, output_existed, generated,
                  file_index, open_handles, printed, error >>

\* The process is gone (its handles with it); the program is started again.
NextRun ==
  /\ pc \in { "exit_ok", "exit_error" }
  /\ run < MaxRuns
  /\ run' = run + 1
  /\ entry' = "none"
  /\ pc' = "start"
  /\ output_existed' = FALSE
  /\ generated' = FALSE
  /\ file_index' = 0
  /\ open_handles' = { }
  /\ printed' = << >>
  /\ error' = "none"
  /\ UNCHANGED << store_incomplete, routes_directory, store >>

(***************************************************************************)
(* generate_csv.                                                           *)
(***************************************************************************)
\* Lines 48-52: open(output_filename, "w") creates or truncates the store and
\* the header row is written.
GenerateOpen ==
  /\ pc = "generate_call"
  /\ generated' = TRUE
  /\ store_incomplete' = TRUE
  /\ store' = [exists |-> TRUE, lines |-> << fieldnames >>]
  /\ open_handles' = open_handles \cup { output_file }
  /\ pc' = "generate_iterdir"
  /\ UNCHANGED << routes_directory, run, entry, output_existed, file_index, printed,
                  error >>

\* Line 53: Path(routes_directory).iterdir() starts the listing.
GenerateIterdir ==
  /\ pc = "generate_iterdir"
  /\ routes_directory.is_dir
  /\ file_index' = 1
  /\ pc' = "generate_loop"
  /\ UNCHANGED << store_incomplete, routes_directory, store, run, entry, output_existed, generated,
                  open_handles, printed, error >>

\* Line 53 on a path that is no directory: iterdir raises and the with block
\* closes the output file on the way out.
GenerateIterdirFails ==
  /\ pc = "generate_iterdir"
  /\ ~routes_directory.is_dir
  /\ error' = "NotADirectoryError"
  /\ open_handles' = open_handles \ { output_file }
  /\ pc' = "generate_raised"
  /\ UNCHANGED << store_incomplete, routes_directory, store, run, entry, output_existed, generated,
                  file_index, printed >>

\* Line 54, route_file_path.open(): a file object bound to no name.
GenerateOpenRoute ==
  /\ pc = "generate_loop"
  /\ file_index <= Len(routes_directory.files)
  /\ open_handles' = open_handles \cup { route_file(file_index) }
  /\ pc' = "generate_parse"
  /\ UNCHANGED << store_incomplete, routes_directory, store, run, entry, output_existed, generated,
                  file_index, printed, error >>

\* Line 54, gpxpy.parse on malformed XML: the exception leaves generate_csv
\* through the with block, which closes the output file only; the route file
\* object is closed by nobody and stays referenced from the traceback.
GenerateParseFails ==
  /\ pc = "generate_parse"
  /\ routes_directory.files[file_index].kind = "malformed"
  /\ error' = "GPXXMLSyntaxException"
  /\ open_handles' = open_handles \ { output_file }
  /\ pc' = "generate_raised"
  /\ UNCHANGED << store_incomplete, routes_directory, store, run, entry, output_existed, generated,
                  file_index, printed >>

\* Lines 54-68 for one route file: parse it and write a row per segment of
\* each track.  The route file object is never closed: it is open until the
\* interpreter finalizes it, at once under reference counting and at some
\* later time otherwise.
GenerateWriteRows ==
  /\ pc = "generate_parse"
  /\ routes_directory.files[file_index].kind = "gpx"
  /\ store' = [store EXCEPT !.lines = @ \o FileRows(routes_directory.files[file_index])]
  /\ \E finalized \in BOOLEAN :
       open_handles' =
         IF finalized THEN open_handles \ { route_file(file_index) } ELSE open_handles
  /\ file_index' = file_index + 1
  /\ pc' = "generate_loop"
  /\ UNCHANGED << store_incomplete, routes_directory, run, entry, output_existed, generated, printed,
                  error >>

\* The listing is exhausted: the with block closes the output file and
\* generate_csv returns.
GenerateReturn ==
  /\ pc = "generate_loop"
  /\ file_index > Len(routes_directory.files)
  /\ open_handles' = open_handles \ { output_file }
  /\ store_incomplete' = FALSE
  /\ pc' = "generate_returned"
  /\ UNCHANGED << routes_directory, store, run, entry, output_existed, generated,
                  file_index, printed, error >>

(***************************************************************************)
(* display_stats.                                                          *)
(***************************************************************************)
\* Line 72: open the store for reading.
DisplayOpen ==
  /\ pc = "display_call"
  /\ store.exists
  /\ open_handles' = open_handles \cup { results_file }
  /\ pc' = "display_body"
  /\ UNCHANGED << store_incomplete, routes_directory, store, run, entry, output_existed, generated,
                  file_index, printed, error >>

\* Line 72 with no store on disk.
DisplayOpenFails ==
  /\ pc = "display_call"
  /\ ~store.exists
  /\ error' = "FileNotFoundError"
  /\ pc' = "display_raised"
  /\ UNCHANGED << store_incomplete, routes_directory, store, run, entry, output_existed, generated,
                  file_index, open_handles, printed >>

\* Lines 73-81: read every row, parse the two columns, print; the with block
\* closes the file whether the body returns or raises.
DisplayBody ==
  /\ pc = "display_body"
  /\ LET outcome == StatsOutcome(store.lines)
     IN  /\ printed' = outcome.printed
         /\ error' = outcome.error
         /\ pc' = IF outcome.error = "none" THEN "display_returned" ELSE "display_raised"
  /\ open_handles' = open_handles \ { results_file }
  /\ UNCHANGED << store_incomplete, routes_directory, store, run, entry, output_existed, generated,
                  file_index >>

Next ==
  \/ MainStoreFound
  \/ MainDataPathMissing
  \/ MainGenerate
  \/ CallGenerateCsv
  \/ CallDisplayStats
  \/ MainAfterGenerate
  \/ RunCompletes
  \/ RunAborts
  \/ NextRun
  \/ GenerateOpen
  \/ GenerateIterdir
  \/ GenerateIterdirFails
  \/ GenerateOpenRoute
  \/ GenerateParseFails
  \/ GenerateWriteRows
  \/ GenerateReturn
  \/ DisplayOpen
  \/ DisplayOpenFails
  \/ DisplayBody

Spec == Init /\ [][Next]_vars

(***************************************************************************)
(* Vocabulary of the properties: the segments of the directory in          *)
(* traversal order, stated on the input and not on the loops above.        *)
(***************************************************************************)
Files == routes_directory.files

\* <<f, t, s>>: segment s of track t of route file f.
SegmentKeys ==
  UNION { UNION { { << f, t, s >> : s \in 1..Len(Files[f].tracks[t].segments) } :
                  t \in 1..Len(Files[f].tracks) } :
          f \in 1..Len(Files) }

TrackAt(x) == Files[x[1]].tracks[x[2]]

PointsAt(x) == TrackAt(x).segments[x[3]].points

\* File order, then track order, then segment order.
Precedes(x, y) ==
  \/ x[1] < y[1]
  \/ x[1] = y[1] /\ x[2] < y[2]
  \/ x[1] = y[1] /\ x[2] = y[2] /\ x[3] < y[3]

\* The line of the store that holds the row of segment x (line 1 is the header).
RowIndex(x) == 2 + Cardinality({ y \in SegmentKeys : Precedes(y, x) })

\* The segments whose rows the current generate_csv call has written so far.
WrittenKeys ==
  IF generated THEN { x \in SegmentKeys : RowIndex(x) <= Len(store.lines) } ELSE { }

RowAt(x) == store.lines[RowIndex(x)]

Geodesic(p, q) == GeodesicMeters(<< p.latitude, p.longitude >>, << q.latitude, q.longitude >>)

\* Sum of the geodesic distance over each consecutive pair, by position.
ConsecutiveSum(points) ==
  SumSeq([i \in 1..(Len(points) - 1) |-> Geodesic(points[i], points[i + 1])], 1)

\* C1: the GeoPy distance cell of every row generate_csv writes is the sum of
\* the geodesic distance over each consecutive pair of the segment's points in
\* recorded order, and is 0 for a segment of 0 or 1 points.
C1_CumulativeDistance ==
  \A x \in WrittenKeys :
    /\ RowAt(x)[4] = ToStr(ConsecutiveSum(PointsAt(x)))
    /\ Len(PointsAt(x)) <= 1 => RowAt(x)[4] = "0"

\* A finished generate_csv call that wrote a segment of three points with
\* unequal hops and a segment of at most one point.
C1_Witness ==
  /\ pc = "generate_returned"
  /\ \E x \in WrittenKeys :
       /\ Len(PointsAt(x)) = 3
       /\ Geodesic(PointsAt(x)[1], PointsAt(x)[3]) # Geodesic(PointsAt(x)[2], PointsAt(x)[3])
       /\ RowAt(x)[4] # "0"
  /\ \E x \in WrittenKeys : Len(PointsAt(x)) <= 1

\* C2: the GeoPy closing distance cell of every row is the geodesic distance
\* between the first and the last point for a segment of at least 2 points and
\* 0 for a segment of 0 or 1 points, and a segment of any length makes
\* generate_csv raise nothing.
C2_ClosingDistance ==
  /\ \A x \in WrittenKeys :
       LET points == PointsAt(x)
       IN  RowAt(x)[5] =
             IF Len(points) >= 2 THEN ToStr(Geodesic(points[1], points[Len(points)]))
             ELSE "0"
  /\ (pc = "generate_raised" /\ routes_directory.is_dir) =>
       \E f \in 1..Len(Files) : Files[f].kind = "malformed"

\* A finished generate_csv call that wrote an empty segment, a one-point
\* segment and a segment of three points that does not end where it began.
C2_Witness ==
  /\ pc = "generate_returned"
  /\ \E x \in WrittenKeys : Len(PointsAt(x)) = 0
  /\ \E x \in WrittenKeys : Len(PointsAt(x)) = 1
  /\ \E x \in WrittenKeys :
       /\ Len(PointsAt(x)) = 3
       /\ RowAt(x)[5] # "0"
       /\ Geodesic(PointsAt(x)[1], PointsAt(x)[2]) # Geodesic(PointsAt(x)[1], PointsAt(x)[3])

\* The rows the current generate_csv call has written, read back as text.
GeneratedRows == IF generated THEN { store.lines[i] : i \in 2..Len(store.lines) } ELSE { }

\* C3: in every row generate_csv writes, the delta cell is the GPX 3d distance
\* cell minus the GeoPy distance cell of the same row, in that order.
C3_DeltaIdentity ==
  \A row \in GeneratedRows :
    /\ IsFloat(row[4]) /\ IsFloat(row[7]) /\ IsFloat(row[8])
    /\ ParseFloat(row[8]) = ParseFloat(row[7]) - ParseFloat(row[4])

\* A finished generate_csv call that wrote a row whose delta is not zero.
C3_Witness ==
  /\ pc = "generate_returned"
  /\ \E row \in GeneratedRows : ParseFloat(row[8]) > 0

\* C4: when generate_csv returns, the store is one header row followed by
\* exactly one row per segment, in file, then track, then segment order, and
\* the Segment cell counts from 1 within each track.
C4_RowOrder ==
  pc = "generate_returned" =>
    /\ Len(store.lines) = 1 + Cardinality(SegmentKeys)
    /\ store.lines[1] = fieldnames
    /\ \A i \in 2..Len(store.lines) : store.lines[i] # fieldnames
    /\ \A x \in SegmentKeys :
         /\ RowAt(x)[2] = ToStr(x[3])
         /\ RowAt(x)[3] = ToStr(Len(PointsAt(x)))
         /\ TrackAt(x).name.t = "str" => RowAt(x)[1] = TrackAt(x).name.v

\* A finished generate_csv call over two route files where a track with two
\* segments is followed by another track, whose numbering starts again at 1.
C4_Witness ==
  /\ pc = "generate_returned"
  /\ \E x \in SegmentKeys : x[1] = 2
  /\ \E x, y \in SegmentKeys :
       /\ x[3] = 2
       /\ RowIndex(y) = RowIndex(x) + 1
       /\ y[2] # x[2]
       /\ RowAt(y)[2] = "1"

DisplayPcs == { "display_call", "display_body", "display_returned", "display_raised" }

GeneratePcs ==
  { "generate_call", "generate_iterdir", "generate_loop", "generate_parse",
    "generate_returned", "generate_raised" }

\* C5: in a run of the __main__ block, display_stats is entered after
\* generate_csv exactly when the store did not exist at startup, then reads
\* the complete store that call produced, and is never followed by
\* generate_csv; a run that ends normally has printed the statistics; and a
\* store that existed at startup is never rewritten by the run.
C5_MainOrder ==
  /\ [](entry = "__main__" /\ pc \in DisplayPcs =>
          /\ generated <=> ~output_existed
          /\ generated =>
               /\ store.exists
               /\ ~store_incomplete
               /\ store.lines[1] = fieldnames
               /\ Len(store.lines) = 1 + Cardinality(SegmentKeys))
  /\ [](entry = "__main__" /\ pc = "exit_ok" => Len(printed) = 3)
  /\ [][entry = "__main__" /\ pc \in DisplayPcs => pc' \notin GeneratePcs]_vars
  /\ [][entry = "__main__" /\ output_existed => store' = store]_vars

\* A __main__ run that generated the store and then printed its statistics.
C5_Witness ==
  /\ entry = "__main__"
  /\ pc = "display_returned"
  /\ generated
  /\ ~output_existed

\* C6: the Track name cell of the row of a segment whose track has no name is
\* the placeholder "??".
C6_UnnamedTrackPlaceholder ==
  \A x \in WrittenKeys : TrackAt(x).name.t = "none" => RowAt(x)[1] = "??"

\* The records of the store as they lie on disk: the non-blank lines after
\* the header.
RecordLines == { i \in 2..Len(store.lines) : Len(store.lines[i]) > 0 }

\* The two cells display_stats parses are there and numeric in every record.
AllParseable ==
  /\ Len(store.lines) > 0 => store.lines[1] = fieldnames
  /\ \A i \in RecordLines :
       /\ Len(store.lines[i]) >= 8
       /\ IsFloat(store.lines[i][4])
       /\ IsFloat(store.lines[i][8])

DisplayEnded ==
  /\ pc \in { "display_returned", "display_raised" }
  /\ store.exists

\* C7: display_stats over parseable records raises StatisticsError with
\* nothing printed when there are none; prints the mean distance and then
\* raises StatisticsError at the standard deviation when there is exactly
\* one; returns with all three lines printed when there are two or more.  An
\* exception raised by display_stats ends the run.
C7_RecordCount ==
  /\ [](DisplayEnded /\ AllParseable =>
          /\ Cardinality(RecordLines) = 0 =>
               pc = "display_raised" /\ error = "StatisticsError" /\ printed = << >>
          /\ Cardinality(RecordLines) = 1 =>
               /\ pc = "display_raised"
               /\ error = "StatisticsError"
               /\ Len(printed) = 2
               /\ \A i \in RecordLines :
                    printed[1].value = [num |-> ParseFloat(store.lines[i][4]), den |-> 1]
          /\ Cardinality(RecordLines) >= 2 =>
               pc = "display_returned" /\ error = "none" /\ Len(printed) = 3)
  /\ [][pc = "display_raised" => pc' = "exit_error"]_vars

\* In its second run the program has printed the mean of a store of exactly
\* one record and failed at the standard deviation.
C7_Witness ==
  /\ run = 2
  /\ DisplayEnded
  /\ AllParseable
  /\ Cardinality(RecordLines) = 1
  /\ Len(printed) = 2

\* display_stats has failed on a store that holds the header alone.
C7_ReachedNone ==
  DisplayEnded /\ AllParseable /\ Cardinality(RecordLines) = 0 /\ Len(store.lines) = 1

\* display_stats has returned from a store of two or more records.
C7_ReachedMany ==
  DisplayEnded /\ AllParseable /\ Cardinality(RecordLines) >= 2 /\ pc = "display_returned"

\* The store starts with the header row generate_csv writes.
HasHeader == Len(store.lines) > 0 /\ store.lines[1] = fieldnames

\* A record whose GeoPy distance cell or delta cell is missing or not numeric.
Unparseable(i) ==
  \/ Len(store.lines[i]) < 8
  \/ ~IsFloat(store.lines[i][4])
  \/ ~IsFloat(store.lines[i][8])

\* C8: when any record of the store has a GeoPy distance cell or a delta cell
\* that is missing or not numeric, display_stats raises ValueError and has
\* printed nothing.
C8_UnparseableAborts ==
  (DisplayEnded /\ HasHeader /\ \E i \in RecordLines : Unparseable(i)) =>
    pc = "display_raised" /\ error = "ValueError" /\ printed = << >>

\* display_stats has ended on a store whose second record is a short row
\* between two records that parse.
C8_Witness ==
  /\ DisplayEnded
  /\ HasHeader
  /\ \E i \in RecordLines :
       /\ Len(store.lines[i]) < 8
       /\ (i - 1) \in RecordLines /\ ~Unparseable(i - 1)
       /\ (i + 1) \in RecordLines /\ ~Unparseable(i + 1)

\* C9: whenever generate_csv or display_stats returns or raises, no file
\* handle is open.
C9_HandlesReleased ==
  pc \in { "generate_returned", "generate_raised", "display_returned", "display_raised" } =>
    open_handles = { }

\* C10: no run of the __main__ block finds a store that a failed generate_csv
\* call left behind, skips generation and reports statistics over it.
C10_NoPartialStoreReported ==
  ~(/\ entry = "__main__"
    /\ output_existed
    /\ store_incomplete
    /\ pc = "display_returned")

====
